---- MODULE Spec2Model ----
(***************************************************************************)
(* A model of the weather widget: CityService (the City Directory) and     *)
(* WeatherComponent (the Weather Resolver).                                *)
(*                                                                         *)
(* JavaScript strings are TLA+ strings, read with Len, SubSeq and \o.      *)
(* JavaScript numbers are records [nan, v]: an integer v, or NaN.          *)
(* The alphabet of the datasets is letters, digits, '-', ' ', ';' and the  *)
(* newline; numerals are integers.                                         *)
(***************************************************************************)
EXTENDS Integers, Sequences, FiniteSets, TLC

VARIABLES
    dataset,        \* the rows of assets/data.csv as the server holds them
    cities,         \* CityService.cities
    loaded,         \* CityService.loaded
    loadPending,    \* dataset GETs subscribed and not yet answered
    fetchCount,     \* dataset GETs issued so far
    parseCount,     \* calls of CityService.parse so far
    parseError,     \* an exception escaped the load callback
    coords,         \* what the last direct call of getCoordinates returned
    searchCity,     \* WeatherComponent.searchCity
    isLoading,      \* WeatherComponent.isLoading
    currentWeather, \* WeatherComponent.currentWeather
    requests,       \* the weather GETs subscribed and not yet answered
    issued,         \* weather GETs issued so far
    publishedBy,    \* the id of the request whose response set currentWeather
    view,           \* the derived values as the template last read them
    lastOp          \* the handler that ran last

vars == <<dataset, cities, loaded, loadPending, fetchCount, parseCount,
          parseError, coords, searchCity, isLoading, currentWeather,
          requests, issued, publishedBy, view, lastOp>>

dirVars == <<cities, loaded, loadPending, fetchCount, parseCount, parseError>>
cmpVars == <<searchCity, isLoading, currentWeather, requests, issued,
            publishedBy>>

----------------------------------------------------------------------------
(* Bounds *)

MaxRows == 2        \* data rows of a dataset
MaxFetches == 2     \* dataset GETs
MaxSearches == 2    \* weather GETs

----------------------------------------------------------------------------
(* JavaScript values *)

NULL == [null |-> TRUE]

NaN == [nan |-> TRUE, v |-> 0]

Num(n) == [nan |-> FALSE, v |-> n]

----------------------------------------------------------------------------
(* String primitives *)

CharAt(s, i) == SubSeq(s, i, i)

IsSpace(c) == c \in {" ", "\t", "\r", "\n"}

UpperLetters == "ABCDEFGHIJKLMNOPQRSTUVWXYZ"

LowerLetters == "abcdefghijklmnopqrstuvwxyz"

(* The lower-case letter of every upper-case letter. *)
LowerOf ==
    [c \in {CharAt(UpperLetters, i) : i \in 1..26} |->
        CharAt(LowerLetters, CHOOSE i \in 1..26 : CharAt(UpperLetters, i) = c)]

LowerChar(c) == IF c \in DOMAIN LowerOf THEN LowerOf[c] ELSE c

RECURSIVE toLowerCase(_)
toLowerCase(s) ==
    IF Len(s) = 0 THEN ""
    ELSE LowerChar(CharAt(s, 1)) \o toLowerCase(SubSeq(s, 2, Len(s)))

RECURSIVE trimStart(_)
trimStart(s) ==
    IF Len(s) > 0 /\ IsSpace(CharAt(s, 1))
    THEN trimStart(SubSeq(s, 2, Len(s)))
    ELSE s

RECURSIVE trimEnd(_)
trimEnd(s) ==
    IF Len(s) > 0 /\ IsSpace(CharAt(s, Len(s)))
    THEN trimEnd(SubSeq(s, 1, Len(s) - 1))
    ELSE s

trim(s) == trimEnd(trimStart(s))

(* s.split(sep) for a one-character separator: the pieces between the     *)
(* occurrences of sep, so "" splits into <<"">>.                           *)
split(s, sep) ==
    LET at == {i \in 1..Len(s) : CharAt(s, i) = sep}
        n == Cardinality(at)
        cut(k) == IF k = 0 THEN 0
                  ELSE IF k = n + 1 THEN Len(s) + 1
                  ELSE CHOOSE p \in at : Cardinality({q \in at : q <= p}) = k
    IN  [k \in 1..(n + 1) |-> SubSeq(s, cut(k - 1) + 1, cut(k) - 1)]

RECURSIVE join(_, _)
join(parts, sep) ==
    IF Len(parts) = 0 THEN ""
    ELSE IF Len(parts) = 1 THEN parts[1]
    ELSE parts[1] \o sep \o join(Tail(parts), sep)

Digits == "0123456789"

DigitOf ==
    [c \in {CharAt(Digits, i) : i \in 1..10} |->
        (CHOOSE i \in 1..10 : CharAt(Digits, i) = c) - 1]

IsDigit(c) == c \in DOMAIN DigitOf

DigitVal(c) == DigitOf[c]

RECURSIVE AllDigits(_)
AllDigits(s) ==
    Len(s) = 0 \/ (IsDigit(CharAt(s, 1)) /\ AllDigits(SubSeq(s, 2, Len(s))))

RECURSIVE DigitsVal(_, _)
DigitsVal(s, acc) ==
    IF Len(s) = 0 THEN acc
    ELSE DigitsVal(SubSeq(s, 2, Len(s)), 10 * acc + DigitVal(CharAt(s, 1)))

(* Number(str): surrounding whitespace is dropped, the empty string is 0,  *)
(* a signed decimal integer is its value, anything else is NaN.            *)
Number(str) ==
    LET t == trim(str)
        neg == Len(t) > 0 /\ CharAt(t, 1) = "-"
        pos == Len(t) > 0 /\ CharAt(t, 1) = "+"
        body == IF neg \/ pos THEN SubSeq(t, 2, Len(t)) ELSE t
    IN  IF Len(t) = 0 THEN Num(0)
        ELSE IF Len(body) > 0 /\ AllDigits(body)
             THEN Num(IF neg THEN 0 - DigitsVal(body, 0) ELSE DigitsVal(body, 0))
             ELSE NaN

(* Array helpers *)
RECURSIVE FilterNonEmpty(_)
FilterNonEmpty(lines) ==
    IF Len(lines) = 0 THEN <<>>
    ELSE IF Len(Head(lines)) = 0 THEN FilterNonEmpty(Tail(lines))
         ELSE <<Head(lines)>> \o FilterNonEmpty(Tail(lines))

----------------------------------------------------------------------------
(* The dataset file assets/data.csv *)

Header == "id;country;city;lat;lon;altitude"

RowLondon == <<"1", "UK", "london", "51", "0", "35">>
RowParis == <<"2", "FR", " Paris ", "48", "2", "35">>
RowLondonCA == <<"3", "CA", "London", "42", "-81", "251">>
RowTwoFields == <<"4", "XX">>
RowFourFields == <<"5", "NO", "oslo", "59">>
RowSevenFields == <<"6", "IT", "rome", "41", "12", "21", "x">>
RowBlank == <<" ">>
RowBadLat == <<"7", "XX", "atlantis", "abc", "1", "0">>

RowPool == {RowLondon, RowParis, RowLondonCA, RowTwoFields, RowFourFields,
            RowSevenFields, RowBlank, RowBadLat}

(* Every dataset of at most MaxRows data rows drawn from RowPool. *)
Datasets == UNION {[1..n -> RowPool] : n \in 0..MaxRows}

(* The dataset the widget is served. *)
ServedDatasets == {<<RowLondon, RowBadLat>>}

(* The text of the file: the header line, then one ';'-joined line per row. *)
DatasetText(rows) ==
    join(<<Header>> \o [i \in 1..Len(rows) |-> join(rows[i], ";")], "\n") \o "\n"

----------------------------------------------------------------------------
(* CityService *)

DataLines(data) ==
    LET lines == Tail(split(data, "\n"))
    IN  FilterNonEmpty([i \in 1..Len(lines) |-> trim(lines[i])])

(* Number(x) of a destructured field: a missing field is undefined, and     *)
(* Number(undefined) is NaN.                                                *)
NumberAt(parts, i) == IF i > Len(parts) THEN NaN ELSE Number(parts[i])

(* The record of one line. With fewer than three fields, city is undefined *)
(* and city.toLowerCase() throws a TypeError.                              *)
LineThrows(line) == Len(split(line, ";")) < 3

LineRecord(line) ==
    LET parts == split(line, ";")
    IN  [id |-> parts[1],
         country |-> parts[2],
         city |-> toLowerCase(parts[3]),
         lat |-> NumberAt(parts, 4),
         lon |-> NumberAt(parts, 5),
         altitude |-> NumberAt(parts, 6)]

ParseThrows(data) ==
    LET lines == DataLines(data)
    IN  \E i \in 1..Len(lines) : LineThrows(lines[i])

parse(data) ==
    LET lines == DataLines(data)
    IN  [i \in 1..Len(lines) |-> LineRecord(lines[i])]

(* Array.prototype.find: the first element that matches, or none. *)
getCoordinates(cityName) ==
    LET key == toLowerCase(cityName)
        hits == {i \in 1..Len(cities) : cities[i].city = key}
    IN  IF hits = {} THEN NULL
        ELSE LET first == CHOOSE i \in hits : \A j \in hits : i <= j
             IN  [lat |-> cities[first].lat, lon |-> cities[first].lon]

(* load(): returns at once when loaded, and otherwise subscribes to a GET. *)
Load ==
    /\ loaded \/ fetchCount < MaxFetches
    /\ IF loaded
       THEN UNCHANGED <<loadPending, fetchCount>>
       ELSE /\ loadPending' = loadPending + 1
            /\ fetchCount' = fetchCount + 1
    /\ lastOp' = "load"
    /\ UNCHANGED <<dataset, view, cities, loaded, parseCount, parseError, coords>>
    /\ UNCHANGED cmpVars

(* A variant of the load callback that sets cities and leaves loaded unset. *)
LoadNextNoFlag ==
    /\ loadPending > 0
    /\ loadPending' = loadPending - 1
    /\ parseCount' = parseCount + 1
    /\ LET text == DatasetText(dataset)
       IN  IF ParseThrows(text)
           THEN /\ parseError' = TRUE
                /\ UNCHANGED cities
           ELSE /\ cities' = parse(text)
                /\ UNCHANGED parseError
    /\ lastOp' = "loadNext"
    /\ UNCHANGED <<dataset, view, loaded, fetchCount, coords>>
    /\ UNCHANGED cmpVars

(* The subscribe callback of load(): parse, then set cities and loaded.    *)
(* An exception in parse leaves the callback before either is set.         *)
LoadNext ==
    /\ loadPending > 0
    /\ loadPending' = loadPending - 1
    /\ parseCount' = parseCount + 1
    /\ LET text == DatasetText(dataset)
       IN  IF ParseThrows(text)
           THEN /\ parseError' = TRUE
                /\ UNCHANGED <<cities, loaded>>
           ELSE /\ cities' = parse(text)
                /\ loaded' = TRUE
                /\ UNCHANGED parseError
    /\ lastOp' = "loadNext"
    /\ UNCHANGED <<dataset, view, fetchCount, coords>>
    /\ UNCHANGED cmpVars

(* The GET of the dataset fails: load() subscribes no error callback. *)
LoadError ==
    /\ loadPending > 0
    /\ loadPending' = loadPending - 1
    /\ lastOp' = "loadError"
    /\ UNCHANGED <<dataset, view, cities, loaded, fetchCount, parseCount, parseError,
                   coords>>
    /\ UNCHANGED cmpVars

(* The names getCoordinates is asked for. *)
Queries == {"london", "London", " london", "paris", " paris ", "oslo", "rome",
            "atlantis", "nowhere"}

GetCoordinates(cityName) ==
    /\ coords' = getCoordinates(cityName)
    /\ lastOp' = "getCoordinates"
    /\ UNCHANGED <<dataset, view>>
    /\ UNCHANGED dirVars
    /\ UNCHANGED cmpVars

----------------------------------------------------------------------------
(* The City Directory on its own, over every bounded dataset *)

InitService ==
    /\ cities = <<>>
    /\ loaded = FALSE
    /\ loadPending = 0
    /\ fetchCount = 0
    /\ parseCount = 0
    /\ parseError = FALSE
    /\ coords = NULL

InitComponent ==
    /\ searchCity = ""
    /\ isLoading = FALSE
    /\ currentWeather = NULL
    /\ requests = {}
    /\ issued = 0
    /\ publishedBy = 0
    /\ view = [temperatureF |-> NULL, weatherConditionClass |-> ""]
    /\ lastOp = "init"

DirInit ==
    /\ dataset \in Datasets
    /\ InitService
    /\ InitComponent

DirNext ==
    \/ Load
    \/ LoadNext
    \/ LoadError
    \/ \E q \in Queries : GetCoordinates(q)

DirSpec == DirInit /\ [][DirNext]_vars

----------------------------------------------------------------------------
(* WeatherComponent *)

weatherCodeMap ==
    (0 :> "Clear") @@ (1 :> "Mainly Clear") @@ (2 :> "Partly Cloudy") @@
    (3 :> "Cloudy") @@ (45 :> "Fog") @@ (48 :> "Rime Fog") @@
    (51 :> "Light Drizzle") @@ (53 :> "Drizzle") @@ (61 :> "Rainy") @@
    (63 :> "Heavy Rain") @@ (71 :> "Snow") @@ (80 :> "Rain Showers")

(* The icons of the table, by name. *)
weatherIconMap ==
    (0 :> "sun") @@ (1 :> "sun behind small cloud") @@
    (2 :> "sun behind cloud") @@ (3 :> "cloud") @@ (45 :> "fog") @@
    (48 :> "fog") @@ (51 :> "sun behind rain cloud") @@
    (61 :> "cloud with rain") @@ (71 :> "snowflake") @@
    (80 :> "cloud with rain")

(* The icon literal of the record built in searchWeather. *)
GlobeIcon == "globe"

(* What the user types or selects. *)
Inputs == {"", "  ", " London ", "Atlantis", "Nowhere"}

(* The bodies the weather provider answers with: a current_weather object, *)
(* or a body that has none.                                                *)
Readings ==
    {[temperature |-> 15, windspeed |-> 20, weathercode |-> 3],
     [temperature |-> 22, windspeed |-> 10, weathercode |-> 99]}

Responses ==
    {[current_weather |-> cw] : cw \in Readings} \cup {[reason |-> "none"]}

(* A variant of searchWeather() that sets the busy indicator before the   *)
(* guards.                                                                 *)
SearchBusyFirst(text) ==
    LET city == trim(toLowerCase(text))
        found == getCoordinates(city)
    IN  IF city = "" \/ found = NULL
        THEN /\ isLoading' = TRUE
             /\ UNCHANGED <<requests, issued>>
        ELSE /\ issued < MaxSearches
             /\ isLoading' = TRUE
             /\ issued' = issued + 1
             /\ requests' = requests \cup
                    {[id |-> issued + 1,
                      lat |-> found.lat,
                      lon |-> found.lon,
                      typed |-> text]}

(* A variant of searchWeather() that passes the coordinates swapped. *)
SearchSwapped(text) ==
    LET city == trim(toLowerCase(text))
        found == getCoordinates(city)
    IN  IF city = "" \/ found = NULL
        THEN UNCHANGED <<isLoading, requests, issued>>
        ELSE /\ issued < MaxSearches
             /\ isLoading' = TRUE
             /\ issued' = issued + 1
             /\ requests' = requests \cup
                    {[id |-> issued + 1,
                      lat |-> found.lon,
                      lon |-> found.lat,
                      typed |-> text]}

(* The body of searchWeather(), reading `text` from the searchCity signal. *)
Search(text) ==
    LET city == trim(toLowerCase(text))
        found == getCoordinates(city)
    IN  IF city = "" \/ found = NULL
        THEN UNCHANGED <<isLoading, requests, issued>>
        ELSE /\ issued < MaxSearches
             /\ isLoading' = TRUE
             /\ issued' = issued + 1
             /\ requests' = requests \cup
                    {[id |-> issued + 1,
                      lat |-> found.lat,
                      lon |-> found.lon,
                      typed |-> text]}

SearchWeather ==
    /\ Search(searchCity)
    /\ lastOp' = "searchWeather"
    /\ UNCHANGED <<dataset, view, coords, searchCity, currentWeather, publishedBy>>
    /\ UNCHANGED dirVars

(* A variant of onCityInput that clears the record when the text changes. *)
OnCityInputClears(value) ==
    /\ searchCity' = value
    /\ currentWeather' = NULL
    /\ lastOp' = "onCityInput"
    /\ UNCHANGED <<dataset, view, coords, isLoading, requests, issued,
                   publishedBy>>
    /\ UNCHANGED dirVars

OnCityInput(value) ==
    /\ searchCity' = value
    /\ lastOp' = "onCityInput"
    /\ UNCHANGED <<dataset, view, coords, isLoading, currentWeather, requests,
                   issued, publishedBy>>
    /\ UNCHANGED dirVars

SelectCity(city) ==
    /\ searchCity' = city
    /\ Search(city)
    /\ lastOp' = "selectCity"
    /\ UNCHANGED <<dataset, view, coords, currentWeather, publishedBy>>
    /\ UNCHANGED dirVars

(* A variant of the record that takes the label of the table without the  *)
(* "Unknown" default.                                                      *)
WeatherDataNoDefault(current) ==
    [city |-> searchCity,
     temperature |-> current.temperature,
     condition |-> IF current.weathercode \in DOMAIN weatherCodeMap
                   THEN weatherCodeMap[current.weathercode]
                   ELSE "",
     humidity |-> 0,
     windSpeed |-> current.windspeed,
     icon |-> GlobeIcon]

(* The record the next callback builds from a current_weather object. *)
WeatherData(current) ==
    [city |-> searchCity,
     temperature |-> current.temperature,
     condition |-> IF current.weathercode \in DOMAIN weatherCodeMap
                   THEN weatherCodeMap[current.weathercode]
                   ELSE "Unknown",
     humidity |-> 0,
     windSpeed |-> current.windspeed,
     icon |-> GlobeIcon]

(* The next callback of the weather GET. Without a current_weather object  *)
(* the read of current.temperature throws a TypeError and the callback     *)
(* ends there.                                                             *)
SubscribeNext(r, res) ==
    /\ r \in requests
    /\ requests' = requests \ {r}
    /\ IF "current_weather" \in DOMAIN res
       THEN /\ currentWeather' = WeatherData(res.current_weather)
            /\ isLoading' = FALSE
            /\ publishedBy' = r.id
            /\ lastOp' = "next"
       ELSE /\ lastOp' = "next:TypeError"
            /\ UNCHANGED <<currentWeather, isLoading, publishedBy>>
    /\ UNCHANGED <<dataset, view, coords, searchCity, issued>>
    /\ UNCHANGED dirVars

(* A variant of the error callback that also clears the record. *)
SubscribeErrorClears(r) ==
    /\ r \in requests
    /\ requests' = requests \ {r}
    /\ isLoading' = FALSE
    /\ currentWeather' = NULL
    /\ lastOp' = "error"
    /\ UNCHANGED <<dataset, view, coords, searchCity, issued, publishedBy>>
    /\ UNCHANGED dirVars

(* The error callback of the weather GET. *)
SubscribeError(r) ==
    /\ r \in requests
    /\ requests' = requests \ {r}
    /\ isLoading' = FALSE
    /\ lastOp' = "error"
    /\ UNCHANGED <<dataset, view, coords, searchCity, currentWeather, issued,
                   publishedBy>>
    /\ UNCHANGED dirVars

----------------------------------------------------------------------------
(* The widget: the component and the directory it loads in ngOnInit *)

Init ==
    /\ dataset \in ServedDatasets
    /\ InitService
    /\ InitComponent

Next ==
    \/ Load
    \/ LoadNext
    \/ LoadError
    \/ SearchWeather
    \/ \E value \in Inputs : OnCityInput(value)
    \/ \E city \in Inputs : SelectCity(city)
    \/ \E r \in requests, res \in Responses : SubscribeNext(r, res)
    \/ \E r \in requests : SubscribeError(r)

Spec == Init /\ [][Next]_vars

----------------------------------------------------------------------------
(* The derived values: computed signals, read again whenever they are read *)

(* Math.round(num / den) for den > 0: the nearest integer, a half upwards. *)
MathRound(num, den) == (2 * num + den) \div (2 * den)

(* A variant that cuts the fraction off. *)
CelsiusToFFloor(t) == (t * 9 + 32 * 5) \div 5

(* Math.round((t * 9 / 5) + 32) *)
CelsiusToF(t) == MathRound(t * 9 + 32 * 5, 5)

temperatureF ==
    IF currentWeather = NULL THEN NULL
    ELSE Num(CelsiusToF(currentWeather.temperature))

(* A variant of the replace below whose pattern is /\s/g. *)
RECURSIVE replaceEachSpace(_)
replaceEachSpace(s) ==
    IF Len(s) = 0 THEN ""
    ELSE (IF IsSpace(CharAt(s, 1)) THEN "-" ELSE CharAt(s, 1))
             \o replaceEachSpace(SubSeq(s, 2, Len(s)))

(* s.replace(/\s+/g, '-'): every maximal run of whitespace becomes "-". *)
RECURSIVE replaceSpaceRuns(_)
replaceSpaceRuns(s) ==
    IF Len(s) = 0 THEN ""
    ELSE IF IsSpace(CharAt(s, 1))
         THEN "-" \o replaceSpaceRuns(trimStart(s))
         ELSE CharAt(s, 1) \o replaceSpaceRuns(SubSeq(s, 2, Len(s)))

conditionClassEachSpace(condition) == replaceEachSpace(toLowerCase(condition))

conditionClass(condition) == replaceSpaceRuns(toLowerCase(condition))

weatherConditionClass ==
    IF currentWeather = NULL THEN ""
    ELSE conditionClass(currentWeather.condition)

(* The template reads the two computed signals. *)
Render ==
    /\ view' = [temperatureF |-> temperatureF,
                weatherConditionClass |-> weatherConditionClass]
    /\ lastOp' = "render"
    /\ UNCHANGED <<dataset, coords>>
    /\ UNCHANGED dirVars
    /\ UNCHANGED cmpVars

(* The widget answered by a provider with a wider range of temperatures. *)
WideReadings ==
    {[temperature |-> t, windspeed |-> 20, weathercode |-> 3] :
        t \in {-40, -18, -1, 0, 1, 15, 100}}

WxNext ==
    \/ Load
    \/ LoadNext
    \/ SelectCity(" London ")
    \/ \E r \in requests, cw \in WideReadings :
          SubscribeNext(r, [current_weather |-> cw])
    \/ \E r \in requests : SubscribeError(r)
    \/ Render

WxSpec == Init /\ [][WxNext]_vars

(* The condition labels the class is derived from: those of the tables and *)
(* labels with runs of whitespace.                                         *)
Conditions ==
    {weatherCodeMap[c] : c \in DOMAIN weatherCodeMap} \cup
    {"Unknown", "Sunny", "Partly   Cloudy", " Fog", "Rain \t Showers", "A  b C"}

ViewInit ==
    /\ dataset \in ServedDatasets
    /\ InitService
    /\ searchCity = ""
    /\ isLoading = FALSE
    /\ currentWeather \in {NULL} \cup
           {[city |-> "London", temperature |-> 15, condition |-> c,
             humidity |-> 0, windSpeed |-> 20, icon |-> GlobeIcon] :
               c \in Conditions}
    /\ requests = {}
    /\ issued = 0
    /\ publishedBy = 0
    /\ view = [temperatureF |-> NULL, weatherConditionClass |-> ""]
    /\ lastOp = "init"

ViewNext ==
    \/ Render
    \/ \E value \in Inputs : OnCityInput(value)

ViewSpec == ViewInit /\ [][ViewNext]_vars

----------------------------------------------------------------------------
(* The mock variant of WeatherComponent: a table and a timer, no provider. *)
(* Its requests are the pending timers, each with the city it captured.    *)

weatherDatabase ==
    ("london" :> [city |-> "London", temperature |-> 15,
                  condition |-> "Cloudy", humidity |-> 75, windSpeed |-> 20,
                  icon |-> "cloud"]) @@
    ("new york" :> [city |-> "New York", temperature |-> 22,
                    condition |-> "Sunny", humidity |-> 60, windSpeed |-> 15,
                    icon |-> "sun"]) @@
    ("paris" :> [city |-> "Paris", temperature |-> 18,
                 condition |-> "Partly Cloudy", humidity |-> 65,
                 windSpeed |-> 12, icon |-> "sun behind cloud"]) @@
    ("tokyo" :> [city |-> "Tokyo", temperature |-> 25,
                 condition |-> "Clear", humidity |-> 55, windSpeed |-> 10,
                 icon |-> "sun behind small cloud"]) @@
    ("sydney" :> [city |-> "Sydney", temperature |-> 28,
                  condition |-> "Sunny", humidity |-> 50, windSpeed |-> 18,
                  icon |-> "sun"]) @@
    ("seattle" :> [city |-> "Seattle", temperature |-> 12,
                   condition |-> "Rainy", humidity |-> 85, windSpeed |-> 25,
                   icon |-> "cloud with rain"])

(* Math.random() is d / RandomScale for a d of 0..RandomScale - 1; the     *)
(* draws taken are the least, the middle and the greatest.                 *)
RandomScale == 1000

RandomDraws == {0, RandomScale \div 2, RandomScale - 1}

(* Math.floor(Math.random() * n) for the draw d. *)
FloorRandom(d, n) == (d * n) \div RandomScale

MockInputs == {"", "  ", " London ", "Nowhere"}

(* A variant of the record below with a temperature factor of 40. *)
SynthesizedWide(d1, d2, d3) ==
    [city |-> searchCity,
     temperature |-> FloorRandom(d1, 40) + 10,
     condition |-> "Unknown",
     humidity |-> FloorRandom(d2, 40) + 40,
     windSpeed |-> FloorRandom(d3, 20) + 5,
     icon |-> GlobeIcon]

(* The record the timer callback builds on a table miss. *)
Synthesized(d1, d2, d3) ==
    [city |-> searchCity,
     temperature |-> FloorRandom(d1, 30) + 10,
     condition |-> "Unknown",
     humidity |-> FloorRandom(d2, 40) + 40,
     windSpeed |-> FloorRandom(d3, 20) + 5,
     icon |-> GlobeIcon]

(* The body of the mock searchWeather(). *)
MockSearch(text) ==
    LET city == trim(toLowerCase(text))
    IN  IF city = ""
        THEN UNCHANGED <<isLoading, requests, issued>>
        ELSE /\ issued < MaxSearches
             /\ isLoading' = TRUE
             /\ issued' = issued + 1
             /\ requests' = requests \cup {[id |-> issued + 1, city |-> city]}

MockSearchWeather ==
    /\ MockSearch(searchCity)
    /\ lastOp' = "searchWeather"
    /\ UNCHANGED <<dataset, view, coords, searchCity, currentWeather,
                   publishedBy>>
    /\ UNCHANGED dirVars

MockSelectCity(city) ==
    /\ searchCity' = city
    /\ MockSearch(city)
    /\ lastOp' = "selectCity"
    /\ UNCHANGED <<dataset, view, coords, currentWeather, publishedBy>>
    /\ UNCHANGED dirVars

(* The setTimeout callback. The delay is the same for every timer, so the  *)
(* timers fire in the order they were set.                                 *)
Timeout(r, d1, d2, d3) ==
    /\ r \in requests
    /\ \A q \in requests : r.id <= q.id
    /\ requests' = requests \ {r}
    /\ currentWeather' = IF r.city \in DOMAIN weatherDatabase
                         THEN weatherDatabase[r.city]
                         ELSE Synthesized(d1, d2, d3)
    /\ isLoading' = FALSE
    /\ publishedBy' = r.id
    /\ lastOp' = "timeout"
    /\ UNCHANGED <<dataset, view, coords, searchCity, issued>>
    /\ UNCHANGED dirVars

TimerFires ==
    \E r \in requests : \E d1, d2, d3 \in RandomDraws : Timeout(r, d1, d2, d3)

MockNext ==
    \/ MockSearchWeather
    \/ \E value \in MockInputs : OnCityInput(value)
    \/ \E city \in MockInputs : MockSelectCity(city)
    \/ TimerFires

MockSpec == Init /\ [][MockNext]_vars

(* A timer that was set fires. *)
MockFairSpec == MockSpec /\ WF_vars(TimerFires)

----------------------------------------------------------------------------
(* Properties *)

SearchOps == {"searchWeather", "selectCity"}

ResponseOps == {"next", "next:TypeError", "error"}

IsBlank(s) == \A i \in 1..Len(s) : IsSpace(CharAt(s, i))

(* C1: every handled response of a search that entered Loading (a         *)
(* successful one, a transport failure, a payload without current_weather) *)
(* leaves the busy indicator false, and the last two publish no record.    *)
C1_BusyClearedOnEveryExit ==
    [][lastOp' \in ResponseOps =>
          /\ isLoading' = FALSE
          /\ (lastOp' # "next" => currentWeather' = currentWeather)]_vars

(* C2: the result of an older search is ignored once a newer search has    *)
(* published: the record is never replaced by that of a search started     *)
(* earlier than the one that published it.                                 *)
C2_LastStartedWins ==
    [][publishedBy' >= publishedBy]_vars

(* C3: load() is single-flight: never two dataset fetches outstanding, and *)
(* the dataset is parsed at most once.                                     *)
C3_LoadOnce ==
    /\ loadPending <= 1
    /\ parseCount <= 1

(* C4: the error callback of a search publishes nothing: the published     *)
(* record, present or absent, is what it was before.                       *)
C4_FailureKeepsRecord ==
    [][lastOp' = "error" =>
          /\ currentWeather' = currentWeather
          /\ publishedBy' = publishedBy]_vars

C4_Witness ==
    /\ lastOp = "error"
    /\ currentWeather # NULL
    /\ isLoading = FALSE

(* C5: the record a successful response publishes carries the city name as *)
(* typed when its search started.                                          *)
C5_CityAsTyped ==
    [][lastOp' = "next" =>
          \E r \in requests \ requests' : currentWeather'.city = r.typed]_vars

(* C6: a search whose input is empty or only whitespace changes neither    *)
(* the busy indicator, nor the record, nor the outstanding requests, and   *)
(* issues no request.                                                      *)
C6_BlankSearchNoOp ==
    [][(lastOp' \in SearchOps /\ IsBlank(searchCity')) =>
          /\ isLoading' = isLoading
          /\ currentWeather' = currentWeather
          /\ requests' = requests
          /\ issued' = issued]_vars

C6_Witness ==
    /\ lastOp = "searchWeather"
    /\ searchCity = "  "
    /\ loaded
    /\ isLoading = FALSE

(* C7: a search for a city the directory cannot resolve, started with no   *)
(* request in flight, ends with the busy indicator false, the record       *)
(* untouched and no request issued.                                        *)
C7_UnresolvedSearch ==
    [][(/\ lastOp' \in SearchOps
        /\ ~IsBlank(searchCity')
        /\ getCoordinates(trim(toLowerCase(searchCity'))) = NULL
        /\ requests = {}) =>
          /\ isLoading' = FALSE
          /\ currentWeather' = currentWeather
          /\ requests' = {}
          /\ issued' = issued]_vars

(* C8: until a dataset response has been parsed and stored, getCoordinates *)
(* returns null for every name, and no weather request has been issued.    *)
C8_AbsentBeforeLoad ==
    (~loaded \/ parseCount = 0) =>
        /\ \A name \in Queries \cup Inputs : getCoordinates(name) = NULL
        /\ issued = 0
        /\ requests = {}

C8_Witness ==
    /\ ~loaded
    /\ loadPending > 0
    /\ lastOp = "selectCity"
    /\ searchCity = " London "

(* C9: once loaded, every six-field row resolves, under its lowercased and *)
(* trimmed city field, to its own lat and lon.                             *)
C9_RowsResolve ==
    loaded =>
        \A i \in 1..Len(dataset) :
            Len(dataset[i]) = 6 =>
                getCoordinates(trim(toLowerCase(dataset[i][3]))) =
                    [lat |-> Number(dataset[i][4]),
                     lon |-> Number(dataset[i][5])]

(* C10: a parsed dataset raises nothing, is loaded, and holds one entry    *)
(* per six-field row and none for any other row.                           *)
C10_MalformedRowsSkipped ==
    parseCount > 0 =>
        /\ ~parseError
        /\ loaded
        /\ Len(cities) = Cardinality({i \in 1..Len(dataset) : Len(dataset[i]) = 6})

(* C11: once loaded, getCoordinates gives a name the result it gives the   *)
(* name lowercased with its surrounding whitespace removed.                *)
C11_ResolveNormalizes ==
    loaded =>
        \A name \in Queries :
            getCoordinates(name) = getCoordinates(trim(toLowerCase(name)))

(* C12: a search for a city whose stored latitude or longitude is not a    *)
(* finite number issues no request and does not set the busy indicator.    *)
C12_NonFiniteUnresolved ==
    [][(/\ lastOp' \in SearchOps
        /\ \E i \in 1..Len(cities) :
              /\ cities[i].city = trim(toLowerCase(searchCity'))
              /\ \A j \in 1..Len(cities) :
                    cities[j].city = cities[i].city => i <= j
              /\ (cities[i].lat.nan \/ cities[i].lon.nan)) =>
          /\ issued' = issued
          /\ requests' = requests
          /\ isLoading' = isLoading]_vars

(* The label of the code table for a weather code, "Unknown" without one. *)
LabelOf(code) ==
    IF code \in DOMAIN weatherCodeMap THEN weatherCodeMap[code] ELSE "Unknown"

(* C13: a published record carries the temperature and wind speed of a     *)
(* provider reading verbatim, humidity 0 and the reading's label, so its   *)
(* condition is never empty; the reading 15, 20, code 3 gives "Cloudy".    *)
C13_RecordFromReading ==
    /\ LabelOf(3) = "Cloudy"
    /\ currentWeather # NULL =>
          /\ \E cw \in Readings :
                /\ currentWeather.temperature = cw.temperature
                /\ currentWeather.windSpeed = cw.windspeed
                /\ currentWeather.condition = LabelOf(cw.weathercode)
          /\ currentWeather.humidity = 0
          /\ currentWeather.condition # ""

C13_Witness ==
    /\ lastOp = "next"
    /\ currentWeather # NULL
    /\ currentWeather.temperature = 15
    /\ currentWeather.windSpeed = 20
    /\ currentWeather.condition = "Cloudy"
    /\ currentWeather.humidity = 0

(* C14: the icon of a published record is the table's icon for the         *)
(* reading's weather code when the code is mapped, and the default icon    *)
(* only when it is not.                                                    *)
C14_IconFromTable ==
    currentWeather # NULL =>
        \E cw \in Readings :
            /\ currentWeather.temperature = cw.temperature
            /\ currentWeather.windSpeed = cw.windspeed
            /\ currentWeather.icon =
                   IF cw.weathercode \in DOMAIN weatherIconMap
                   THEN weatherIconMap[cw.weathercode]
                   ELSE GlobeIcon

(* C15: the Fahrenheit value is absent exactly when no record is           *)
(* published, and otherwise is the integer nearest to t * 9/5 + 32 for the *)
(* temperature t of the record published now: 15 gives 59, 0 gives 32,     *)
(* 100 gives 212. A read of it gives the value for the current record.     *)
C15_Fahrenheit ==
    /\ (temperatureF = NULL) <=> (currentWeather = NULL)
    /\ currentWeather # NULL =>
          LET t == currentWeather.temperature
              f == temperatureF.v
              d == 5 * f - (9 * t + 160)
          IN  /\ ~temperatureF.nan
              /\ -5 <= 2 * d /\ 2 * d <= 5
              /\ (t = 15 => f = 59)
              /\ (t = 0 => f = 32)
              /\ (t = 100 => f = 212)
    /\ lastOp = "render" => view.temperatureF = temperatureF

C15_Witness ==
    /\ lastOp = "render"
    /\ currentWeather # NULL
    /\ currentWeather.temperature = 1
    /\ publishedBy = 2
    /\ view.temperatureF = Num(34)

RECURSIVE SqueezeSpaces(_)
SqueezeSpaces(s) ==
    IF Len(s) <= 1 THEN s
    ELSE IF IsSpace(CharAt(s, 1)) /\ IsSpace(CharAt(s, 2))
         THEN SqueezeSpaces(SubSeq(s, 2, Len(s)))
         ELSE CharAt(s, 1) \o SqueezeSpaces(SubSeq(s, 2, Len(s)))

RECURSIVE Hyphenate(_)
Hyphenate(s) ==
    IF Len(s) = 0 THEN ""
    ELSE (IF IsSpace(CharAt(s, 1)) THEN "-" ELSE CharAt(s, 1))
             \o Hyphenate(SubSeq(s, 2, Len(s)))

(* C16: the CSS class is "" without a record, and otherwise the record's   *)
(* condition with every run of whitespace turned into one hyphen, in lower *)
(* case: "Partly Cloudy" gives "partly-cloudy", "Clear" gives "clear", and *)
(* "Partly   Cloudy" gives "partly-cloudy".                                *)
C16_ConditionClass ==
    /\ currentWeather = NULL => weatherConditionClass = ""
    /\ currentWeather # NULL =>
          LET c == currentWeather.condition
              cls == weatherConditionClass
          IN  /\ cls = toLowerCase(Hyphenate(SqueezeSpaces(c)))
              /\ (c = "Partly Cloudy" => cls = "partly-cloudy")
              /\ (c = "Clear" => cls = "clear")
              /\ (c = "Partly   Cloudy" => cls = "partly-cloudy")

C16_Witness ==
    /\ lastOp = "render"
    /\ currentWeather # NULL
    /\ currentWeather.condition = "Partly   Cloudy"
    /\ view.weatherConditionClass = "partly-cloudy"

(* C17: in the mock variant every search that set a timer leads to its     *)
(* record being published with the busy indicator false; and a timer whose *)
(* city misses the table publishes condition "Unknown" with temperature in *)
(* 10..40, humidity in 40..80 and wind speed in 5..25, whatever the draws. *)
C17_MockPublishes ==
    /\ \A i \in 1..MaxSearches :
          (\E r \in requests : r.id = i) ~>
              (publishedBy = i /\ ~isLoading /\ currentWeather # NULL)
    /\ [][\A r \in requests \ requests' :
              r.city \notin DOMAIN weatherDatabase =>
                  /\ currentWeather'.condition = "Unknown"
                  /\ currentWeather'.temperature \in 10..40
                  /\ currentWeather'.humidity \in 40..80
                  /\ currentWeather'.windSpeed \in 5..25]_vars

C17_Witness ==
    /\ lastOp = "timeout"
    /\ isLoading = FALSE
    /\ currentWeather # NULL
    /\ currentWeather.condition = "Unknown"
    /\ currentWeather.temperature = 39
    /\ currentWeather.humidity = 40
    /\ currentWeather.windSpeed = 24

(* C18: a search with a non-blank input that the directory resolves sets   *)
(* the busy indicator in the same step and issues exactly one request,     *)
(* with the latitude and longitude the directory returns for the           *)
(* normalized name; no other handler issues a request.                     *)
C18_OneRequestPerSearch ==
    [][LET name == trim(toLowerCase(searchCity'))
           found == getCoordinates(name)
       IN  IF lastOp' \in SearchOps /\ ~IsBlank(searchCity') /\ found # NULL
           THEN /\ isLoading' = TRUE
                /\ issued' = issued + 1
                /\ \E r \in requests' :
                      /\ r \notin requests
                      /\ requests' = requests \cup {r}
                      /\ r.lat = found.lat
                      /\ r.lon = found.lon
           ELSE /\ issued' = issued
                /\ requests' \subseteq requests]_vars

C18_Witness ==
    /\ lastOp = "searchWeather"
    /\ searchCity = " London "
    /\ isLoading = TRUE
    /\ issued = 2
    /\ \E r \in requests : r.id = 2 /\ r.lat = Num(51) /\ r.lon = Num(0)

(* C19: the busy indicator is true exactly when a request is outstanding. *)
C19_BusyIffOutstanding ==
    isLoading <=> (requests # {})

(* C20: the record changes only in a successful next callback, is never    *)
(* reset to absent once published, and onCityInput changes neither the     *)
(* record nor the busy indicator.                                          *)
C20_RecordChangesOnSuccess ==
    [][/\ (currentWeather' # currentWeather => lastOp' = "next")
       /\ (currentWeather # NULL => currentWeather' # NULL)
       /\ (lastOp' = "onCityInput" =>
              /\ currentWeather' = currentWeather
              /\ isLoading' = isLoading)]_vars

C20_Witness ==
    /\ lastOp = "onCityInput"
    /\ currentWeather # NULL
    /\ currentWeather.city # searchCity
    /\ isLoading = TRUE

====
